---- MODULE Spec2Model ----
(***************************************************************************)
(* Model of clippy_lints/src/use_crate_prefix_for_self_imports.rs:         *)
(* the early lint pass UseCratePrefixForSelfImports.                       *)
(*                                                                         *)
(* check_crate walks the session's source files and collects, in mod_set,  *)
(* the file stem of the component at index 1 of every local-crate file     *)
(* path; check_item looks up the first prefix segment of every use item  *)
(* in mod_set and suggests prefixing the import with crate::.            *)
(*                                                                         *)
(* Encoding.  An Option<T> is a sequence of length 0 (None) or 1 (Some).   *)
(* A path component or file name is a sequence of atoms in which "." is    *)
(* the dot character, so that "foo.rs" is <<"foo", ".", "rs">>.  Source    *)
(* text is a sequence of tokens.  An OsString is a sequence of atoms.      *)
(***************************************************************************)
EXTENDS Integers, Sequences, FiniteSets, TLC

\* ------------------------------------------------------------------ bounds
MaxFiles == 3     \* longest list of source files in the source map
MaxItems == 2     \* number of check_item calls in one run

\* ------------------------------------------------------------- Option<T>
None == <<>>
Some(x) == <<x>>
IsSome(o) == Len(o) = 1
Unwrap(o) == o[1]

\* ------------------------------------------------------------------ paths
\* std::path::Component: RootDir is the leading "/" of an absolute path and
\* ParentDir a ".." component; every other component is Normal.
RootDir == <<"/">>
ParentDir == <<"..">>

RelPath(comps) == [abs |-> FALSE, comps |-> comps]
AbsPath(comps) == [abs |-> TRUE, comps |-> comps]

\* Path::is_relative
is_relative(p) == ~p.abs

IsPrefixOf(s, t) == Len(s) <= Len(t) /\ SubSeq(t, 1, Len(s)) = s

\* Path::strip_prefix: Ok(the rest) when base is a component-wise prefix.
strip_prefix(p, base) ==
    IF p.abs = base.abs /\ IsPrefixOf(base.comps, p.comps)
    THEN Some(RelPath(SubSeq(p.comps, Len(base.comps) + 1, Len(p.comps))))
    ELSE None

\* Path::components
components(p) == (IF p.abs THEN <<RootDir>> ELSE <<>>) \o p.comps

\* Iterator::nth, zero-based
nth(s, n) == IF n + 1 <= Len(s) THEN Some(s[n + 1]) ELSE None

Max(S) == CHOOSE m \in S : \A k \in S : k <= m

\* Path::file_stem of a single component: None when the component is not a
\* normal name; the whole name when it has no dot or only a leading dot;
\* otherwise the part before the last dot.
file_stem(c) ==
    IF c = ParentDir \/ c = RootDir THEN None
    ELSE LET dots == {i \in 1..Len(c) : c[i] = "."} IN
         IF dots = {} \/ Max(dots) = 1 THEN Some(c)
         ELSE Some(SubSeq(c, 1, Max(dots) - 1))

\* ------------------------------------------------------------ source map
LOCAL_CRATE == 0
ExternCrate == 1

RealFile(lp, cnum) == [name |-> [real |-> TRUE, local |-> Some(lp)], cnum |-> cnum]
RemappedFile(cnum) == [name |-> [real |-> TRUE, local |-> None], cnum |-> cnum]
VirtualFile(cnum) == [name |-> [real |-> FALSE, local |-> None], cnum |-> cnum]

rs(n) == <<n, ".", "rs">>

\* The source files a session may hold.
SourceFiles ==
    { RealFile(RelPath(<<<<"src">>, rs("foo")>>), LOCAL_CRATE),
      RealFile(RelPath(<<<<"src">>, <<"bar">>, rs("mod")>>), LOCAL_CRATE),
      RealFile(RelPath(<<rs("build")>>), LOCAL_CRATE),
      RealFile(AbsPath(<<<<"proj">>, <<"src">>, rs("crate")>>), LOCAL_CRATE),
      RealFile(AbsPath(<<<<"other">>, <<"src">>, rs("baz")>>), LOCAL_CRATE),
      RealFile(RelPath(<<<<"src">>, ParentDir, rs("up")>>), LOCAL_CRATE),
      RealFile(RelPath(<<<<"vendor">>, rs("dep")>>), ExternCrate),
      RemappedFile(LOCAL_CRATE),
      VirtualFile(LOCAL_CRATE) }

\* cx.sess().opts.working_dir: a RealFileName whose local path may be gone.
WorkingDirs == { [local |-> Some(AbsPath(<<<<"proj">>>>))], [local |-> None] }

\* RealFileName::local_path of the working directory
LocalPathOrDefault(wd) == IF wd.local = None THEN Some(RelPath(<<>>)) ELSE wd.local
working_dir_local_path(wd) == wd.local

\* ------------------------------------------------------------ check_crate
\* the if let ... && ... && ... filter of the loop body
IsLocalRealFileAnyCrate(file) == file.name.real /\ IsSome(file.name.local)
IsLocalRealFile(file) ==
    file.name.real /\ IsSome(file.name.local) /\ file.cnum = LOCAL_CRATE

\* lp as is when relative, stripped of the root when below it, else skipped
RelativeToOrAsIs(lp, trim_to_src) ==
    IF is_relative(lp) THEN Some(lp)
    ELSE IF IsSome(strip_prefix(lp, trim_to_src)) THEN strip_prefix(lp, trim_to_src)
    ELSE Some(lp)
RelativeTo(lp, trim_to_src) ==
    IF is_relative(lp) THEN Some(lp) ELSE strip_prefix(lp, trim_to_src)

\* path.components().nth(1)
ModuleComponentFirst(path) == nth(components(path), 0)
ModuleComponent(path) == nth(components(path), 1)

\* the names one loop iteration inserts into mod_set: none or one
Inserted(file, trim_to_src) ==
    IF ~IsLocalRealFile(file) THEN {}
    ELSE LET path == RelativeTo(Unwrap(file.name.local), trim_to_src) IN
         IF path = None THEN {}
         ELSE LET root == ModuleComponent(Unwrap(path)) IN
              IF root = None THEN {}
              ELSE LET mod_name == file_stem(Unwrap(root)) IN
                   IF mod_name = None THEN {} ELSE {Unwrap(mod_name)}

\* ------------------------------------------------------------- check_item
\* OsString::from(x.ident.name.as_str())
OsStringFrom(s) == <<s>>

\* The first segment of the prefix of the use tree written as text:
\* none for a tree that starts with a group or a glob, the path root for a
\* leading ::.
FirstSegment(text) ==
    IF text = <<>> \/ text[1] \in {"{", "*"} THEN None
    ELSE IF text[1] = "::" THEN Some("{{root}}")
    ELSE Some(text[1])

\* A span is what the source map holds for it: its text, or nothing for a
\* span without source text.
SpanOf(text) == [text |-> Some(text)]
NoTextSpan == [text |-> None]

\* clippy_utils::source::snippet_opt
snippet_opt(span) == span.text

UseItem(text) == [kind |-> "Use", lead |-> FirstSegment(text), span |-> SpanOf(text)]
SyntheticUse(seg) == [kind |-> "Use", lead |-> Some(seg), span |-> NoTextSpan]
FnItem == [kind |-> "Fn", lead |-> None, span |-> SpanOf(<<"fn", "foo">>)]

\* The items the visitor may hand to check_item.
Items ==
    { UseItem(<<"foo", "::", "bar">>),
      UseItem(<<"crate", "::", "foo", "::", "bar">>),
      UseItem(<<"std", "::", "foo">>),
      UseItem(<<"bar", "::", "*">>),
      UseItem(<<"{", "foo", "::", "a", "}">>),
      SyntheticUse("foo"),
      SyntheticUse("std"),
      FnItem }

LintMsgAmbiguous == "this import is ambiguous as to its origin"
LintMsg == "this import is not clear"
\* the help text, written without its backquotes
HelpMsg == "prefix with crate::"

\* format!("crate::{}", snippet)
FormatSuggNoSep(snippet) == <<"crate">> \o snippet
FormatSugg(snippet) == <<"crate", "::">> \o snippet

\* What one check_item call does: nothing, a diagnostic, or a panic of the
\* unwrap on a missing snippet.
Lints(set, it) ==
    it.kind = "Use" /\ IsSome(it.lead) /\ OsStringFrom(Unwrap(it.lead)) \in set

Diagnostic(it) ==
    [span |-> it.span,
     msg |-> LintMsg,
     help |-> HelpMsg,
     sugg |-> FormatSugg(Unwrap(snippet_opt(it.span))),
     applicability |-> "MachineApplicable"]

\* The import as it reads once the suggestion of diagnostic d is applied.
Rewritten(d) == UseItem(d.sugg)

\* ------------------------------------------------------------------ state
VARIABLES
    files,        \* cx.sess().source_map().files()
    working_dir,  \* cx.sess().opts.working_dir
    mod_set,      \* UseCratePrefixForSelfImports::mod_set
    pc,           \* "start", "loop" (inside check_crate), "match", "panicked"
    idx,          \* position of the loop of check_crate in files, from 1
    item,         \* the item of the last check_item call, if any
    out,          \* the diagnostic that call emitted, if any
    diags,        \* every diagnostic emitted so far
    nitems,       \* number of check_item calls so far
    refix         \* the last call examined an import rewritten by a suggestion

vars == <<files, working_dir, mod_set, pc, idx, item, out, diags, nitems, refix>>

FileLists == UNION { [1..n -> SourceFiles] : n \in 0..MaxFiles }

\* The pass is built by Default: mod_set is empty.
Init ==
    /\ files \in FileLists
    /\ working_dir \in WorkingDirs
    /\ mod_set = {}
    /\ pc = "start"
    /\ idx = 1
    /\ item = None
    /\ out = None
    /\ diags = {}
    /\ nitems = 0
    /\ refix = FALSE

\* check_crate up to the loop: return when the working directory has no
\* local path.
CheckCrateEnter ==
    /\ pc = "start"
    /\ pc' = IF working_dir_local_path(working_dir) = None THEN "match" ELSE "loop"
    /\ UNCHANGED <<files, working_dir, mod_set, idx, item, out, diags, nitems, refix>>

\* one iteration of the loop of check_crate
CheckCrateFile ==
    /\ pc = "loop"
    /\ idx <= Len(files)
    /\ mod_set' = mod_set \cup
           Inserted(files[idx], Unwrap(working_dir_local_path(working_dir)))
    /\ idx' = idx + 1
    /\ UNCHANGED <<files, working_dir, pc, item, out, diags, nitems, refix>>

\* the loop is over: check_crate returns
CheckCrateReturn ==
    /\ pc = "loop"
    /\ idx > Len(files)
    /\ pc' = "match"
    /\ UNCHANGED <<files, working_dir, mod_set, idx, item, out, diags, nitems, refix>>

\* what check_item reports for it: a panic when the snippet is missing
CheckItemReport(it) ==
    IF Lints(mod_set, it)
    THEN IF snippet_opt(it.span) = None
         THEN pc' = "panicked" /\ out' = None /\ diags' = diags
         ELSE pc' = pc /\ out' = Some(Diagnostic(it))
              /\ diags' = diags \cup {Diagnostic(it)}
    ELSE pc' = pc /\ out' = None /\ diags' = diags

CheckItemOnInserting(it) ==
    /\ pc = "match"
    /\ nitems < MaxItems
    /\ item' = Some(it)
    /\ nitems' = nitems + 1
    /\ CheckItemReport(it)
    /\ mod_set' = IF it.kind = "Use" /\ IsSome(it.lead)
                  THEN mod_set \cup {OsStringFrom(Unwrap(it.lead))}
                  ELSE mod_set
    /\ UNCHANGED <<files, working_dir, idx>>

\* check_item on the item it
CheckItemOn(it) ==
    /\ pc = "match"
    /\ nitems < MaxItems
    /\ item' = Some(it)
    /\ nitems' = nitems + 1
    /\ CheckItemReport(it)
    /\ UNCHANGED <<files, working_dir, mod_set, idx>>

\* check_item on an item of the crate
CheckItem ==
    \E it \in Items : CheckItemOn(it) /\ refix' = FALSE

\* check_item on the import just flagged, after its suggestion was applied
CheckRewritten ==
    /\ IsSome(out)
    /\ CheckItemOn(Rewritten(Unwrap(out)))
    /\ refix' = TRUE

Next ==
    \/ CheckCrateEnter
    \/ CheckCrateFile
    \/ CheckCrateReturn
    \/ CheckItem
    \/ CheckRewritten

Spec == Init /\ [][Next]_vars

\* ---------------------------------------------------------------- claims
\* The definitions below state the claims on the variables alone; they use
\* none of the operators of check_crate and check_item above.

Collected == pc \in {"match", "panicked"}
RootResolved == working_dir.local # <<>>
Examined == nitems > 0 /\ item # <<>>
FilesSeen == { files[i] : i \in DOMAIN files }

\* a real local file of the analysed crate
ProjectFile(f) == f.name.real /\ f.name.local # <<>> /\ f.cnum = LOCAL_CRATE

\* the root-relative components of the path of project file f: the path as
\* is when relative, without the root when below it, nothing when outside
Normalized(f) ==
    LET p == f.name.local[1]
        r == working_dir.local[1].comps
        n == Len(r)
    IN  IF ~p.abs THEN <<p.comps>>
        ELSE IF n <= Len(p.comps) /\ \A i \in 1..n : p.comps[i] = r[i]
             THEN <<[i \in 1..(Len(p.comps) - n) |-> p.comps[i + n]]>>
             ELSE <<>>

OutsideRoot(f) == ProjectFile(f) /\ f.name.local[1].abs /\ Normalized(f) = <<>>

ShortPath(f) ==
    ProjectFile(f) /\ Normalized(f) # <<>> /\ Len(Normalized(f)[1]) < 2

\* the name c without its extension (c a normal name)
WithoutExtension(c) ==
    LET n == Len(c) IN
    IF \E i \in 2..n : c[i] = "."
    THEN LET last == CHOOSE i \in 2..n : c[i] = "." /\ \A j \in (i + 1)..n : c[j] # "."
         IN  [i \in 1..(last - 1) |-> c[i]]
    ELSE c

\* the module names location f stands for: a ".." component is no name
ModuleNames(f) ==
    IF ProjectFile(f) /\ Normalized(f) # <<>> /\ Len(Normalized(f)[1]) >= 2
       /\ Normalized(f)[1][2] # <<"..">>
    THEN {WithoutExtension(Normalized(f)[1][2])}
    ELSE {}

LeadingInSet == item[1].kind = "Use" /\ item[1].lead # <<>> /\ <<item[1].lead[1]>> \in mod_set

\* C1: a check_item call that returns has emitted a diagnostic for its
\* import iff the leading segment of the import is in mod_set and that
\* segment is not the qualifier crate.
C1_FlaggedIffLeadingInSetAndNotQualifier ==
    (Examined /\ pc = "match" /\ item[1].kind = "Use") =>
        ((out # <<>>) <=> (LeadingInSet /\ item[1].lead[1] # "crate"))

\* C2: an import rewritten by its suggestion is never flagged again.
C2_RewrittenNeverFlagged ==
    refix => (out = <<>> /\ pc # "panicked")

\* C3: the suggestion of every diagnostic is crate, then ::, then the text of
\* the span of the diagnostic, and nothing else.
C3_SuggestionIsQualifierThenText ==
    \A d \in diags :
        /\ d.span.text # <<>>
        /\ LET t == d.span.text[1] IN
           /\ Len(d.sugg) = Len(t) + 2
           /\ d.sugg[1] = "crate"
           /\ d.sugg[2] = "::"
           /\ \A i \in 1..Len(t) : d.sugg[i + 2] = t[i]

C3_Witness ==
    /\ out # <<>>
    /\ ~refix
    /\ Len(out[1].span.text[1]) = 3

\* C4: an import whose leading segment is in mod_set and whose span has no
\* text gets no diagnostic, and the run does not panic.
C4_NoTextNoDiagnosticNoPanic ==
    (Examined /\ LeadingInSet /\ item[1].span.text = <<>>) =>
        (out = <<>> /\ pc # "panicked")

\* C5: when the working directory has no local path, mod_set stays empty,
\* no import is flagged and nothing panics.
C5_UnresolvedRootNoDiagnostics ==
    ~RootResolved =>
        (mod_set = {} /\ diags = {} /\ out = <<>> /\ pc # "panicked")

C5_Witness ==
    /\ ~RootResolved
    /\ Examined
    /\ item[1].kind = "Use"
    /\ item[1].lead = <<"foo">>
    /\ \E f \in FilesSeen : ProjectFile(f) /\ ~f.name.local[1].abs
                              /\ Len(f.name.local[1].comps) >= 2

\* C6: the iteration over a project file whose normalized path has fewer
\* than two components inserts nothing into mod_set.
C6_ShortPathContributesNothing ==
    [][(pc = "loop" /\ idx <= Len(files) /\ ShortPath(files[idx]))
          => mod_set' = mod_set]_vars

C6_Witness ==
    /\ pc = "match"
    /\ RootResolved
    /\ \E i \in DOMAIN files : ShortPath(files[i])
    /\ \E i \in DOMAIN files : ModuleNames(files[i]) # {}

\* C7 as written: every diagnostic carries the message "this import is
\* ambiguous as to its origin".
C7_MessageIsAmbiguousOrigin ==
    \A d \in diags : d.msg = "this import is ambiguous as to its origin"

\* C7 as amended: every diagnostic carries the message "this import is not
\* clear".
C7_MessageIsNotClear ==
    \A d \in diags : d.msg = "this import is not clear"

C7_Witness ==
    /\ Cardinality(diags) >= 2
    /\ \A d \in diags : d.msg = "this import is not clear"

C9_OutsideRootSkipsOnlyThatFile ==
    /\ [][(pc = "loop" /\ idx <= Len(files) /\ OutsideRoot(files[idx]))
             => (mod_set' = mod_set /\ idx' = idx + 1 /\ pc' = "loop")]_vars
    /\ [][mod_set \subseteq mod_set']_vars
    /\ []((Collected /\ RootResolved /\ \E f \in FilesSeen : OutsideRoot(f))
             => \A f \in FilesSeen : ModuleNames(f) \subseteq mod_set)

C9_Witness ==
    /\ pc = "match"
    /\ RootResolved
    /\ Len(files) = 3
    /\ ModuleNames(files[1]) # {}
    /\ OutsideRoot(files[2])
    /\ ModuleNames(files[3]) # {}
    /\ ModuleNames(files[1]) # ModuleNames(files[3])
    /\ mod_set = ModuleNames(files[1]) \cup ModuleNames(files[3])

\* C10: mod_set changes only inside the loop of check_crate; no check_item
\* call changes it.
C10_ModSetWrittenOnlyByCheckCrate ==
    [][(mod_set' # mod_set => (pc = "loop" /\ pc' = "loop"))
        /\ (nitems' # nitems => mod_set' = mod_set)]_vars

C10_Witness ==
    /\ pc = "match"
    /\ nitems >= 2
    /\ diags # {}
    /\ out = <<>>
    /\ mod_set # {}

====
